---- MODULE Spec2Model ----
(***************************************************************************)
(* A model of src/app.py: the /api/forecast handler forecast() and the     *)
(* engine generate_forecast().                                            *)
(*                                                                         *)
(* Text is modelled as a sequence of one-character strings, so that        *)
(* strip(), lower(), int() and float() are computed character by          *)
(* character.  A CSV file is the sequence of rows csv.reader yields, each  *)
(* row a sequence of fields.  Numbers that Python holds as floats are      *)
(* exact rationals <<numerator, denominator>> in lowest terms; rounding    *)
(* of binary floating point is not modelled.  A dict is a function from    *)
(* its keys to its values.                                                 *)
(***************************************************************************)
EXTENDS Integers, Sequences, FiniteSets, TLC

VARIABLES
    form,              \* request.form: the text fields of the request
    files,             \* request.files: "absent", "noname" or "file"
    hashseed,          \* the process's string hash order (set iteration order)
    pc,                \* position of the handler
    salary,            \* forecast(): salary
    forecast_months,   \* forecast(): forecast_months
    csv_content,       \* forecast(): csv_content, once file.read() has run
    all_data,          \* forecast(): all_data
    categories,        \* forecast(): categories
    months,            \* generate_forecast(): months
    result,            \* generate_forecast(): result
    month,             \* generate_forecast(): month of the running iteration
    ci,                \* generate_forecast(): index of the running category
    month_data,        \* generate_forecast(): month_data
    total_expense,     \* generate_forecast(): total_expense
    predicted_amount,  \* generate_forecast(): predicted_amount
    response,          \* what forecast() returned
    client             \* the caller's record of its previous call

vars == <<form, files, hashseed, pc, salary, forecast_months, csv_content,
          all_data, categories, months, result, month, ci, month_data,
          total_expense, predicted_amount, response, client>>

-----------------------------------------------------------------------------
(* Bounds of the model *)

\* most data rows of an uploaded file of the validator's input family
MaxRawRows == 4

\* most data rows of an uploaded file of the engine's input family
MaxRows == 4

\* largest forecast horizon a request of the engine's input family asks for
MaxForecast == 2

-----------------------------------------------------------------------------
(* Exact rational arithmetic *)

Abs(n) == IF n < 0 THEN -n ELSE n

RECURSIVE GCD(_, _)
GCD(a, b) == IF b = 0 THEN a ELSE GCD(b, a % b)

Rat(n, d) ==
    LET g == GCD(Abs(n), Abs(d))
        s == IF d < 0 THEN -1 ELSE 1
    IN  <<(s * n) \div g, (s * d) \div g>>

RInt(n) == <<n, 1>>
RAdd(a, b) == Rat(a[1] * b[2] + b[1] * a[2], a[2] * b[2])
RSub(a, b) == Rat(a[1] * b[2] - b[1] * a[2], a[2] * b[2])
RMul(a, b) == Rat(a[1] * b[1], a[2] * b[2])
RDiv(a, b) == Rat(a[1] * b[2], a[2] * b[1])
RLess(a, b) == a[1] * b[2] < b[1] * a[2]
RLeq(a, b) == a[1] * b[2] <= b[1] * a[2]

-----------------------------------------------------------------------------
(* Text *)

DigitChars == <<"0", "1", "2", "3", "4", "5", "6", "7", "8", "9">>
UpperChars == <<"A", "B", "C", "D", "E", "F", "G", "H", "I", "J", "K", "L", "M",
                "N", "O", "P", "Q", "R", "S", "T", "U", "V", "W", "X", "Y", "Z">>
LowerChars == <<"a", "b", "c", "d", "e", "f", "g", "h", "i", "j", "k", "l", "m",
                "n", "o", "p", "q", "r", "s", "t", "u", "v", "w", "x", "y", "z">>

IsDigit(c) == \E k \in 1..Len(DigitChars) : DigitChars[k] = c
DigitVal(c) == (CHOOSE k \in 1..Len(DigitChars) : DigitChars[k] = c) - 1
IsSpace(c) == c \in {" ", "\t"}

\* str.lower()
LowerChar(c) ==
    IF \E k \in 1..Len(UpperChars) : UpperChars[k] = c
    THEN LowerChars[CHOOSE k \in 1..Len(UpperChars) : UpperChars[k] = c]
    ELSE c
Lower(s) == [k \in 1..Len(s) |-> LowerChar(s[k])]

\* str.strip()
RECURSIVE LStrip(_)
LStrip(s) == IF s # <<>> /\ IsSpace(Head(s)) THEN LStrip(Tail(s)) ELSE s
RECURSIVE RStrip(_)
RStrip(s) ==
    IF s # <<>> /\ IsSpace(s[Len(s)]) THEN RStrip(SubSeq(s, 1, Len(s) - 1)) ELSE s
Strip(s) == RStrip(LStrip(s))

AllDigits(s) == s # <<>> /\ \A k \in 1..Len(s) : IsDigit(s[k])

RECURSIVE DigitsVal(_)
DigitsVal(s) ==
    IF s = <<>> THEN 0
    ELSE 10 * DigitsVal(SubSeq(s, 1, Len(s) - 1)) + DigitVal(s[Len(s)])

RECURSIVE Pow10(_)
Pow10(k) == IF k = 0 THEN 1 ELSE 10 * Pow10(k - 1)

HasSign(s) == s # <<>> /\ Head(s) \in {"+", "-"}
Unsigned(s) == IF HasSign(s) THEN Tail(s) ELSE s
SignOf(s) == IF s # <<>> /\ Head(s) = "-" THEN -1 ELSE 1

\* int(text): surrounding blanks, an optional sign, decimal digits.
\* ok = FALSE stands for the ValueError.
ParseInt(text) ==
    LET s == Strip(text)
        u == Unsigned(s)
    IN  IF AllDigits(u)
        THEN [ok |-> TRUE, val |-> SignOf(s) * DigitsVal(u)]
        ELSE [ok |-> FALSE, val |-> 0]

\* float(text): surrounding blanks, an optional sign, digits, and an optional
\* fraction after a point.  ok = FALSE stands for the ValueError.
ParseFloat(text) ==
    LET s == Strip(text)
        u == Unsigned(s)
        dots == {k \in 1..Len(u) : u[k] = "."}
    IN  IF AllDigits(u)
        THEN [ok |-> TRUE, val |-> RInt(SignOf(s) * DigitsVal(u))]
        ELSE IF Cardinality(dots) = 1
        THEN LET p == CHOOSE k \in dots : TRUE
                 ip == SubSeq(u, 1, p - 1)
                 fp == SubSeq(u, p + 1, Len(u))
             IN  IF AllDigits(ip) /\ AllDigits(fp)
                 THEN [ok |-> TRUE,
                       val |-> Rat(SignOf(s) * (DigitsVal(ip) * Pow10(Len(fp))
                                                + DigitsVal(fp)),
                                   Pow10(Len(fp)))]
                 ELSE [ok |-> FALSE, val |-> RInt(0)]
        ELSE [ok |-> FALSE, val |-> RInt(0)]

\* the decimal text of a small integer
Text(n) == IF n < 0 THEN <<"-", DigitChars[1 - n]>> ELSE <<DigitChars[n + 1]>>

-----------------------------------------------------------------------------
(* Names and dicts *)

KeyMonth == <<"m", "o", "n", "t", "h">>
KeySavings == <<"s", "a", "v", "i", "n", "g", "s">>
KeyCategory == <<"c", "a", "t", "e", "g", "o", "r", "y">>
KeyAmount == <<"a", "m", "o", "u", "n", "t">>
Food == <<"f">>

\* d[k] = v of a dict
Put(d, k, v) == [x \in (DOMAIN d) \cup {k} |-> IF x = k THEN v ELSE d[x]]
EmptyDict == [x \in {} |-> RInt(0)]

-----------------------------------------------------------------------------
(* forecast(): the responses *)

NoResponse == [status |-> 0, error |-> "", detail |-> <<>>,
               categories |-> <<>>, forecast |-> <<>>]

\* jsonify({'error': ...}), 400
Error(msg, detail) == [status |-> 400, error |-> msg, detail |-> detail,
                       categories |-> <<>>, forecast |-> <<>>]

\* jsonify({'categories': ..., 'forecast': ...})
Success(cats, forecast_data) == [status |-> 200, error |-> "", detail |-> <<>>,
                                 categories |-> cats, forecast |-> forecast_data]

-----------------------------------------------------------------------------
(* forecast(): the request's parameters, lines 24-48 *)

DefaultForecastMonths == 3

NotPositive(x) == RLeq(x, RInt(0))

\* lines 27-32: ok, or the error of the salary field
CheckSalary(text) ==
    LET f == ParseFloat(text)
    IN  IF ~f.ok THEN Error("Salary must be a valid number", <<>>)
        ELSE IF NotPositive(f.val) THEN Error("Salary must be a positive number", <<>>)
        ELSE NoResponse

\* CheckForecastMonths with the comparison of line 45 written < 0
CheckForecastMonthsAcceptsZero(given, text) ==
    LET n == IF given THEN ParseInt(text) ELSE [ok |-> TRUE, val |-> DefaultForecastMonths]
    IN  IF ~n.ok THEN Error("Forecast months must be a valid number", <<>>)
        ELSE IF n.val < 0 THEN Error("Forecast months must be a positive number", <<>>)
        ELSE NoResponse

\* lines 43-48: ok, or the error of the forecast_months field
CheckForecastMonths(given, text) ==
    LET n == IF given THEN ParseInt(text) ELSE [ok |-> TRUE, val |-> DefaultForecastMonths]
    IN  IF ~n.ok THEN Error("Forecast months must be a valid number", <<>>)
        ELSE IF n.val <= 0 THEN Error("Forecast months must be a positive number", <<>>)
        ELSE NoResponse

\* lines 24-48, in the order of the code: the first check that fails decides
CheckParams(fm, fl) ==
    IF "salary" \notin DOMAIN fm THEN Error("Monthly salary is required", <<>>)
    ELSE IF CheckSalary(fm["salary"]) # NoResponse THEN CheckSalary(fm["salary"])
    ELSE IF fl = "absent" THEN Error("CSV file is required", <<>>)
    ELSE IF fl = "noname" THEN Error("No file selected", <<>>)
    ELSE CheckForecastMonths("forecast_months" \in DOMAIN fm,
                             IF "forecast_months" \in DOMAIN fm
                             THEN fm["forecast_months"] ELSE <<>>)

-----------------------------------------------------------------------------
(* forecast(): the CSV file, lines 51-91 *)

Unread == [read |-> FALSE, lines |-> <<>>]

\* line 58
HeaderOK(headers) ==
    /\ Len(headers) = 3
    /\ Lower(headers[1]) = KeyMonth
    /\ Lower(headers[2]) = KeyCategory
    /\ Lower(headers[3]) = KeyAmount

\* lines 66-75: a row the loop passes over with continue
Skipped(row) ==
    \/ Len(row) # 3
    \/ Strip(row[2]) = <<>>
    \/ Strip(row[1]) = <<>>

\* lines 77-80: the except branch is taken
Unparseable(row) ==
    \/ ~ParseInt(Strip(row[1])).ok
    \/ ~ParseFloat(Strip(row[3])).ok

\* ParseRows with the except branch of line 80 written continue
RECURSIVE ParseRowsSkipping(_, _)
ParseRowsSkipping(rows, data) ==
    IF rows = <<>> THEN [failed |-> FALSE, row |-> <<>>, all_data |-> data]
    ELSE IF Skipped(Head(rows)) \/ Unparseable(Head(rows))
    THEN ParseRowsSkipping(Tail(rows), data)
    ELSE ParseRowsSkipping(Tail(rows),
                   Append(data, [category |-> Strip(Head(rows)[2]),
                                 amount |-> ParseFloat(Strip(Head(rows)[3])).val,
                                 month |-> ParseInt(Strip(Head(rows)[1])).val]))

\* lines 65-84: the loop over the data rows, with its early return
RECURSIVE ParseRows(_, _)
ParseRows(rows, data) ==
    IF rows = <<>> THEN [failed |-> FALSE, row |-> <<>>, all_data |-> data]
    ELSE IF Skipped(Head(rows)) THEN ParseRows(Tail(rows), data)
    ELSE IF Unparseable(Head(rows))
    THEN [failed |-> TRUE, row |-> Head(rows), all_data |-> data]
    ELSE ParseRows(Tail(rows),
                   Append(data, [category |-> Strip(Head(rows)[2]),
                                 amount |-> ParseFloat(Strip(Head(rows)[3])).val,
                                 month |-> ParseInt(Strip(Head(rows)[1])).val]))

\* line 84
MonthsFound(data) == {data[k].month : k \in 1..Len(data)}

MinMonths == 3

\* TooFewMonths with the bound of line 90 off by one
TooFewMonthsOffByOne(found) == Cardinality(found) < MinMonths - 1

\* line 90
TooFewMonths(found) == Cardinality(found) < MinMonths

\* lines 61-91: NoResponse when the data passes, or the error returned
Validate(rows) ==
    LET p == ParseRows(rows, <<>>)
    IN  IF p.failed
        THEN Error("Invalid month or amount for category",
                   <<Strip(p.row[2]), Strip(p.row[1]), Strip(p.row[3])>>)
        ELSE IF p.all_data = <<>> THEN Error("No valid data found in CSV file", <<>>)
        ELSE IF TooFewMonths(MonthsFound(p.all_data))
        THEN Error("At least 3 months of data required", <<Cardinality(MonthsFound(p.all_data))>>)
        ELSE NoResponse

\* line 94: list(set(...)), in the iteration order the hash seed gives the set
RECURSIVE ListOfSet(_, _)
ListOfSet(order, S) ==
    IF order = <<>> THEN <<>>
    ELSE IF Head(order) \in S THEN <<Head(order)>> \o ListOfSet(Tail(order), S)
    ELSE ListOfSet(Tail(order), S)

CategorySet(data) == {data[k].category : k \in 1..Len(data)}

-----------------------------------------------------------------------------
(* generate_forecast(), lines 110-176 *)

\* line 114: sorted(list(set(...)))
RECURSIVE Sorted(_)
Sorted(S) ==
    IF S = {} THEN <<>>
    ELSE LET lo == CHOOSE x \in S : \A y \in S : x <= y
         IN  <<lo>> \o Sorted(S \ {lo})

\* lines 118, 136
NewMonthData(m) == Put(Put(EmptyDict, KeyMonth, RInt(m)), KeySavings, RInt(0))

\* sum(item['amount'] for item in items)
RECURSIVE SumAmounts(_)
SumAmounts(items) ==
    IF items = <<>> THEN RInt(0)
    ELSE RAdd(items[1].amount, SumAmounts(Tail(items)))

\* line 122
CategoryItems(data, category, m) ==
    SelectSeq(data, LAMBDA item : item.category = category /\ item.month = m)

\* lines 121-126: the loop over the categories of one historical month
RECURSIVE HistoricalCategories(_, _, _, _)
HistoricalCategories(data, cats, m, acc) ==
    IF cats = <<>> THEN acc
    ELSE LET items == CategoryItems(data, Head(cats), m)
             amount == SumAmounts(items)
         IN  HistoricalCategories(data, Tail(cats), m,
                 IF items # <<>>
                 THEN [month_data |-> Put(acc.month_data, Head(cats), amount),
                       total_expense |-> RAdd(acc.total_expense, amount)]
                 ELSE acc)

\* lines 118-128: the month_data of one historical month
HistoricalMonthData(data, cats, m, sal) ==
    LET acc == HistoricalCategories(data, cats, m,
                   [month_data |-> NewMonthData(m), total_expense |-> RInt(0)])
    IN  Put(acc.month_data, KeySavings, RSub(sal, acc.total_expense))

\* line 141
CategoryData(data, category) ==
    SelectSeq(data, LAMBDA item : item.category = category)

\* lines 146-159: the points (month, summed amount) of one category, X and y
Points(data, category) ==
    LET cd == CategoryData(data, category)
        ms == Sorted(MonthsFound(cd))
    IN  [k \in 1..Len(ms) |-> <<ms[k], SumAmounts(CategoryItems(cd, category, ms[k]))>>]

RECURSIVE RSum(_)
RSum(xs) == IF xs = <<>> THEN RInt(0) ELSE RAdd(Head(xs), RSum(Tail(xs)))

\* lines 165-166: LinearRegression().fit(X, y), ordinary least squares with an
\* intercept; one point (no variance in X) gives the minimum-norm slope 0
LinearRegressionFit(points) ==
    LET n == RInt(Len(points))
        I == 1..Len(points)
        xbar == RDiv(RSum([k \in I |-> RInt(points[k][1])]), n)
        ybar == RDiv(RSum([k \in I |-> points[k][2]]), n)
        dx == [k \in I |-> RSub(RInt(points[k][1]), xbar)]
        dy == [k \in I |-> RSub(points[k][2], ybar)]
        sxx == RSum([k \in I |-> RMul(dx[k], dx[k])])
        sxy == RSum([k \in I |-> RMul(dx[k], dy[k])])
        coef == IF sxx = RInt(0) THEN RInt(0) ELSE RDiv(sxy, sxx)
    IN  [coef |-> coef, intercept |-> RSub(ybar, RMul(coef, xbar))]

\* line 169: model.predict([[month]])[0]
LinearRegressionPredict(model, m) == RAdd(RMul(model.coef, RInt(m)), model.intercept)

\* Clamp with the max(0, ...) of line 169 left out
ClampDropped(x) == x

\* line 169: max(0, ...)
Clamp(x) == IF RLess(RInt(0), x) THEN x ELSE RInt(0)

\* lines 141-169: the predicted amount of one category for one future month
PredictedAmount(data, category, m) ==
    Clamp(LinearRegressionPredict(LinearRegressionFit(Points(data, category)), m))

\* NextMonth with the + 1 of line 132 left out
NextMonthOffByOne(ms) == ms[Len(ms)]

\* line 132
NextMonth(ms) == ms[Len(ms)] + 1

-----------------------------------------------------------------------------
(* The requests the model is run on *)

SeqsUpTo(S, n) == UNION {[1..k -> S] : k \in 0..n}

\* request.form with the given fields; Absent leaves a field out
Absent == <<"(absent)">>
MakeForm(s, h) ==
    [k \in {x \in {"salary", "forecast_months"} :
               (x = "salary" /\ s # Absent) \/ (x = "forecast_months" /\ h # Absent)}
        |-> IF k = "salary" THEN s ELSE h]

\* the iteration orders of a set of category names, one per hash seed
HashSeeds == {<<Food, KeyMonth, KeySavings>>, <<KeySavings, KeyMonth, Food>>}

HeaderLine == <<KeyMonth, KeyCategory, KeyAmount>>

\* the validator's input family: every kind of field, header and row
RawSalaries == {Absent, <<"2">>, <<"0">>, <<"-", "1">>, <<"x">>}
RawHorizons == {Absent, <<"1">>, <<"0">>, <<"x">>, <<"1", ".", "5">>}
RawFileParts == {"absent", "noname", "file"}
RawHeaders ==
    { HeaderLine,
      << <<"M", "o", "n", "t", "h">>, <<"C", "A", "T", "E", "G", "O", "R", "Y">>,
         <<"A", "m", "o", "u", "n", "t">> >>,
      << <<"M", "o", "n", "t", "h">>, <<"C", "a", "t">>, <<"A", "m", "t">> >>,
      << KeyMonth, KeyCategory >> }
RawRows ==
    { << <<" ", "1", " ">>, Food, <<"3">> >>,
      << <<"2">>, <<" ">> \o KeySavings, <<"-", "3">> >>,
      << <<"4">>, Food, <<"1", ".", "5">> >>,
      << <<"x">>, Food, <<"3">> >>,
      << <<"2">>, KeyMonth, <<"y">> >>,
      << <<" ">>, Food, <<"3">> >>,
      << <<"1">>, <<" ">>, <<"3">> >>,
      << <<"1">>, Food >> }
RawFiles ==
    {<<>>} \cup {<<h>> \o body : h \in RawHeaders, body \in SeqsUpTo(RawRows, MaxRawRows)}

\* the engine's input family: well-formed rows over three months (with a gap),
\* three category names, amounts of both signs
EngineSalaries == {<<"2">>}
EngineHorizons == {Text(n) : n \in 1..MaxForecast}
EngineEntries ==
    { <<1, Food, 3>>, <<2, Food, -3>>, <<4, Food, 3>>,
      <<2, KeySavings, 3>>, <<4, KeySavings, 3>>,
      <<1, KeyMonth, -3>>, <<4, KeyMonth, -3>> }
EngineRows == {<<Text(e[1]), e[2], Text(e[3])>> : e \in EngineEntries}
EngineFiles == {<<HeaderLine>> \o body : body \in SeqsUpTo(EngineRows, MaxRows)}

-----------------------------------------------------------------------------
(* The state machine *)

InitLocals ==
    /\ pc = "forecast"
    /\ salary = RInt(0)
    /\ forecast_months = 0
    /\ csv_content = Unread
    /\ all_data = <<>>
    /\ categories = <<>>
    /\ months = <<>>
    /\ result = <<>>
    /\ month = 0
    /\ ci = 0
    /\ month_data = EmptyDict
    /\ total_expense = RInt(0)
    /\ predicted_amount = RInt(0)
    /\ response = NoResponse

NoCall == [called |-> FALSE, hashseed |-> <<>>, csv |-> <<>>, response |-> NoResponse]

Init ==
    /\ form \in {MakeForm(s, h) : s \in RawSalaries, h \in RawHorizons}
    /\ files \in RawFileParts
    /\ hashseed \in HashSeeds
    /\ client = NoCall
    /\ InitLocals

InitEngine ==
    /\ form \in {MakeForm(s, h) : s \in EngineSalaries, h \in EngineHorizons}
    /\ files = "file"
    /\ hashseed \in HashSeeds
    /\ client = NoCall
    /\ InitLocals

request == <<form, files, hashseed, client>>
engine == <<months, result, month, ci, month_data, total_expense, predicted_amount>>

\* return jsonify(...): the handler ends
Return(r) == response' = r /\ pc' = "done"

\* lines 24-48: the parameters are checked before the file is touched
CheckRequest ==
    /\ pc = "forecast"
    /\ IF CheckParams(form, files) # NoResponse
       THEN /\ Return(CheckParams(form, files))
            /\ UNCHANGED <<salary, forecast_months>>
       ELSE /\ salary' = ParseFloat(form["salary"]).val
            /\ forecast_months' =
                   IF "forecast_months" \in DOMAIN form
                   THEN ParseInt(form["forecast_months"]).val
                   ELSE DefaultForecastMonths
            /\ pc' = "read"
            /\ UNCHANGED response
    /\ UNCHANGED <<request, csv_content, all_data, categories, engine>>

\* lines 52-59: file.read(), csv.reader, next(csv_reader) and the header check;
\* next() of a file with no line raises StopIteration, caught at line 104
ReadCSV(uploads) ==
    /\ pc = "read"
    /\ \E f \in uploads :
          /\ csv_content' = [read |-> TRUE, lines |-> f]
          /\ IF f = <<>> THEN Return(Error("Error processing CSV file", <<>>))
             ELSE IF ~HeaderOK(f[1])
             THEN Return(Error("CSV file must have headers: month,category,amount", <<>>))
             ELSE pc' = "parse" /\ UNCHANGED response
    /\ UNCHANGED <<request, salary, forecast_months, all_data, categories, engine>>

\* lines 61-94: the rows are parsed and checked, the categories extracted
ParseData ==
    /\ pc = "parse"
    /\ LET rows == Tail(csv_content.lines)
       IN  IF Validate(rows) # NoResponse
           THEN /\ Return(Validate(rows))
                /\ UNCHANGED <<all_data, categories>>
           ELSE /\ all_data' = ParseRows(rows, <<>>).all_data
                /\ categories' = ListOfSet(hashseed, CategorySet(all_data'))
                /\ pc' = "call"
                /\ UNCHANGED response
    /\ UNCHANGED <<request, salary, forecast_months, csv_content, engine>>

\* lines 97, 110-114: generate_forecast is entered
Call ==
    /\ pc = "call"
    /\ result' = <<>>
    /\ months' = Sorted(MonthsFound(all_data))
    /\ pc' = "historical"
    /\ UNCHANGED <<request, salary, forecast_months, csv_content, all_data,
                   categories, month, ci, month_data, total_expense,
                   predicted_amount, response>>

\* lines 117-129: one iteration of the loop over the historical months
HistoricalMonth ==
    /\ pc = "historical"
    /\ Len(result) < Len(months)
    /\ month' = months[Len(result) + 1]
    /\ month_data' = HistoricalMonthData(all_data, categories, month', salary)
    /\ total_expense' = RSub(salary, month_data'[KeySavings])
    /\ result' = Append(result, month_data')
    /\ UNCHANGED <<request, pc, salary, forecast_months, csv_content, all_data,
                   categories, months, ci, predicted_amount, response>>

\* lines 132-137: the loop over the future months is entered
BeginForecast ==
    /\ pc = "historical"
    /\ Len(result) = Len(months)
    /\ IF forecast_months > 0
       THEN /\ month' = NextMonth(months)
            /\ month_data' = NewMonthData(month')
            /\ total_expense' = RInt(0)
            /\ ci' = 1
            /\ pc' = "future"
       ELSE /\ pc' = "return"
            /\ UNCHANGED <<month, month_data, total_expense, ci>>
    /\ UNCHANGED <<request, salary, forecast_months, csv_content, all_data,
                   categories, months, result, predicted_amount, response>>

\* lines 139-171: one category of one future month
FutureCategory ==
    /\ pc = "future"
    /\ ci <= Len(categories)
    /\ IF CategoryData(all_data, categories[ci]) # <<>>
       THEN /\ predicted_amount' = PredictedAmount(all_data, categories[ci], month)
            /\ month_data' = Put(month_data, categories[ci], predicted_amount')
            /\ total_expense' = RAdd(total_expense, predicted_amount')
       ELSE UNCHANGED <<predicted_amount, month_data, total_expense>>
    /\ ci' = ci + 1
    /\ UNCHANGED <<request, pc, salary, forecast_months, csv_content, all_data,
                   categories, months, result, month, response>>

\* lines 173-174, 135-137: a future month is finished and the next one begun
FutureMonthEnd ==
    /\ pc = "future"
    /\ ci > Len(categories)
    /\ result' = Append(result, Put(month_data, KeySavings, RSub(salary, total_expense)))
    /\ IF month + 1 < NextMonth(months) + forecast_months
       THEN /\ month' = month + 1
            /\ month_data' = NewMonthData(month')
            /\ total_expense' = RInt(0)
            /\ ci' = 1
            /\ pc' = "future"
       ELSE /\ month_data' = Put(month_data, KeySavings, RSub(salary, total_expense))
            /\ pc' = "return"
            /\ UNCHANGED <<month, total_expense, ci>>
    /\ UNCHANGED <<request, salary, forecast_months, csv_content, all_data,
                   categories, months, predicted_amount, response>>

\* lines 176, 99-102: the forecast is returned
ReturnForecast ==
    /\ pc = "return"
    /\ Return(Success(categories, result))
    /\ UNCHANGED <<request, salary, forecast_months, csv_content, all_data,
                   categories, engine>>

Handler(uploads) ==
    \/ CheckRequest
    \/ ReadCSV(uploads)
    \/ ParseData
    \/ Call
    \/ HistoricalMonth
    \/ BeginForecast
    \/ FutureCategory
    \/ FutureMonthEnd
    \/ ReturnForecast

Next == Handler(RawFiles)
Spec == Init /\ [][Next]_vars

NextEngine == Handler(EngineFiles)
SpecEngine == InitEngine /\ [][NextEngine]_vars

\* the caller sends the same request (same fields, same file) a second time
Rerun ==
    /\ pc = "done"
    /\ ~client.called
    /\ client' = [called |-> TRUE, hashseed |-> hashseed,
                  csv |-> csv_content.lines, response |-> response]
    /\ pc' = "forecast"
    /\ salary' = RInt(0)
    /\ forecast_months' = 0
    /\ csv_content' = Unread
    /\ all_data' = <<>>
    /\ categories' = <<>>
    /\ months' = <<>>
    /\ result' = <<>>
    /\ month' = 0
    /\ ci' = 0
    /\ month_data' = EmptyDict
    /\ total_expense' = RInt(0)
    /\ predicted_amount' = RInt(0)
    /\ response' = NoResponse
    /\ UNCHANGED <<form, files, hashseed>>

\* the server process is started anew between two calls: Python draws a new
\* string hash seed, and with it the iteration order of a set of strings
Restart ==
    /\ pc = "forecast"
    /\ client.called
    /\ hashseed' \in HashSeeds \ {hashseed}
    /\ UNCHANGED <<form, files, pc, salary, forecast_months, csv_content, all_data,
                   categories, engine, response, client>>

NextRerun ==
    \/ Handler(IF client.called THEN {client.csv} ELSE EngineFiles)
    \/ Rerun
    \/ Restart
SpecRerun == InitEngine /\ [][NextRerun]_vars

-----------------------------------------------------------------------------
(* The request as the claims describe it *)

Zero == RInt(0)

IncomeGiven == "salary" \in DOMAIN form
HorizonGiven == "forecast_months" \in DOMAIN form
NonNumericIncome == IncomeGiven /\ ~ParseFloat(form["salary"]).ok
NonPositiveIncome ==
    IncomeGiven /\ ParseFloat(form["salary"]).ok /\ RLeq(ParseFloat(form["salary"]).val, Zero)
NonNumericHorizon == HorizonGiven /\ ~ParseInt(form["forecast_months"]).ok
NonPositiveHorizon ==
    HorizonGiven /\ ParseInt(form["forecast_months"]).ok /\ ParseInt(form["forecast_months"]).val <= 0
InvalidIncome == NonNumericIncome \/ NonPositiveIncome
InvalidHorizon == NonNumericHorizon \/ NonPositiveHorizon
ValidParameters ==
    IncomeGiven /\ ~InvalidIncome /\ ~InvalidHorizon /\ files = "file"

ValidHeader ==
    csv_content.read /\ csv_content.lines # <<>> /\ HeaderOK(csv_content.lines[1])
DataRows == Tail(csv_content.lines)

\* a row the validator takes as an observation
ValidRow(row) ==
    /\ Len(row) = 3
    /\ Strip(row[1]) # <<>> /\ Strip(row[2]) # <<>>
    /\ ParseInt(Strip(row[1])).ok /\ ParseFloat(Strip(row[3])).ok
\* a row with three fields, a month and a category, whose month or amount does not parse
BrokenRow(row) ==
    /\ Len(row) = 3
    /\ Strip(row[1]) # <<>> /\ Strip(row[2]) # <<>>
    /\ ~(ParseInt(Strip(row[1])).ok /\ ParseFloat(Strip(row[3])).ok)
ValidIndices(rows) == {k \in 1..Len(rows) : ValidRow(rows[k])}
BrokenIndices(rows) == {k \in 1..Len(rows) : BrokenRow(rows[k])}
DistinctMonths(rows) == {ParseInt(Strip(rows[k][1])).val : k \in ValidIndices(rows)}
FirstBroken(rows) == CHOOSE k \in BrokenIndices(rows) : \A j \in BrokenIndices(rows) : k <= j

InEngine == pc \in {"call", "historical", "future", "return"}
Forecasted == pc = "done" /\ response.status = 200

-----------------------------------------------------------------------------
(* C3 *)

FewMonths ==
    /\ ValidParameters /\ ValidHeader
    /\ ValidIndices(DataRows) # {}
    /\ BrokenIndices(DataRows) = {}
    /\ Cardinality(DistinctMonths(DataRows)) < 3

\* C3: a request with valid parameters and header, at least one valid row, no
\* unparseable row and fewer than 3 distinct months never enters
\* generate_forecast, and is answered with the insufficient-history error that
\* reports the number of distinct months found.
InsufficientHistoryRejected ==
    FewMonths =>
        /\ ~InEngine
        /\ pc = "done" =>
              response = Error("At least 3 months of data required",
                               <<Cardinality(DistinctMonths(DataRows))>>)

\* two distinct months were found and reported
InsufficientHistoryWitness ==
    /\ FewMonths
    /\ pc = "done"
    /\ Cardinality(DistinctMonths(DataRows)) = 2
    /\ response.error = "At least 3 months of data required"
    /\ response.detail = <<2>>

-----------------------------------------------------------------------------
(* C4 *)

IncomeError ==
    IF NonNumericIncome THEN Error("Salary must be a valid number", <<>>)
    ELSE Error("Salary must be a positive number", <<>>)
HorizonError ==
    IF NonNumericHorizon THEN Error("Forecast months must be a valid number", <<>>)
    ELSE Error("Forecast months must be a positive number", <<>>)
IncomeOrHorizonErrors ==
    { Error("Monthly salary is required", <<>>),
      Error("Salary must be a valid number", <<>>),
      Error("Salary must be a positive number", <<>>),
      Error("Forecast months must be a valid number", <<>>),
      Error("Forecast months must be a positive number", <<>>) }

\* C4, as stated: whenever the income or the horizon is non-positive or
\* non-numeric, the handler returns the error of the income or of the horizon
\* and the CSV text is never read.
ParameterErrorAlways ==
    (InvalidIncome \/ InvalidHorizon) =>
        /\ csv_content = Unread
        /\ pc = "done" => response \in IncomeOrHorizonErrors

\* C4, amended: whenever the income or the horizon is non-positive or
\* non-numeric, the handler ends with an error without reading the CSV text;
\* the error is the income's when the income is invalid, and the horizon's when
\* the income is valid and a file with a name is attached (with no such file the
\* missing-file error of lines 35-40 comes before the horizon is looked at).
ParameterErrorsBeforeParsing ==
    (InvalidIncome \/ InvalidHorizon) =>
        /\ csv_content = Unread
        /\ pc \in {"forecast", "done"}
        /\ pc = "done" =>
              /\ response.status = 400
              /\ InvalidIncome => response = IncomeError
              /\ (IncomeGiven /\ ~InvalidIncome /\ files = "file") => response = HorizonError
              /\ (IncomeGiven /\ ~InvalidIncome /\ files # "file") =>
                     response \in {Error("CSV file is required", <<>>),
                                   Error("No file selected", <<>>)}

\* a zero horizon with a valid income and a file was answered with the horizon's error
ParameterErrorWitness ==
    /\ pc = "done"
    /\ NonPositiveHorizon /\ IncomeGiven /\ ~InvalidIncome /\ files = "file"
    /\ response = Error("Forecast months must be a positive number", <<>>)
    /\ csv_content = Unread

-----------------------------------------------------------------------------
(* C5 *)

HasBrokenRow == ValidParameters /\ ValidHeader /\ BrokenIndices(DataRows) # {}

\* C5: a row with three fields, a month and a category whose month or amount
\* does not parse aborts the validation: generate_forecast is never entered and
\* the answer is the parse error naming the category and the raw month and
\* amount of the first such row, whatever rows precede or follow it.
UnparseableRowAborts ==
    HasBrokenRow =>
        /\ ~InEngine
        /\ pc = "done" =>
              LET row == DataRows[FirstBroken(DataRows)]
              IN  response = Error("Invalid month or amount for category",
                                   <<Strip(row[2]), Strip(row[1]), Strip(row[3])>>)

\* the unparseable row came after valid rows of three distinct months
UnparseableRowWitness ==
    /\ HasBrokenRow
    /\ pc = "done"
    /\ Cardinality(DistinctMonths(SubSeq(DataRows, 1, FirstBroken(DataRows) - 1))) >= 3
    /\ response.error = "Invalid month or amount for category"

-----------------------------------------------------------------------------
(* The forecast as the claims describe it *)

Observations(c, m) == {k \in 1..Len(all_data) : all_data[k].category = c /\ all_data[k].month = m}
ObservedMonths(c) == {all_data[k].month : k \in {j \in 1..Len(all_data) : all_data[j].category = c}}
HistoricalCount == Cardinality(MonthsFound(all_data))
LastHistoricalMonth == CHOOSE m \in MonthsFound(all_data) : \A x \in MonthsFound(all_data) : x <= m

RECURSIVE TotalOf(_)
TotalOf(S) ==
    IF S = {} THEN Zero
    ELSE LET k == CHOOSE k \in S : TRUE IN RAdd(all_data[k].amount, TotalOf(S \ {k}))

\* the values a summary holds under the names of the category list
RECURSIVE CategoryValues(_, _)
CategoryValues(e, cats) ==
    IF cats = <<>> THEN Zero
    ELSE RAdd(IF Head(cats) \in DOMAIN e THEN e[Head(cats)] ELSE Zero,
              CategoryValues(e, Tail(cats)))

RECURSIVE Predictions(_, _)
Predictions(cats, m) ==
    IF cats = <<>> THEN Zero
    ELSE RAdd(PredictedAmount(all_data, Head(cats), m), Predictions(Tail(cats), m))

NonNegative(x) == x[1] >= 0
FloorAtZero(x) == IF x[1] < 0 THEN Zero ELSE x

-----------------------------------------------------------------------------
(* C1 *)

\* C1, as stated: the returned list has (distinct historical months +
\* forecast_months) entries, and their 'month' values, in output order, go up
\* by one each.
TimelineAscendingNoGaps ==
    Forecasted =>
        /\ Len(response.forecast) = HistoricalCount + forecast_months
        /\ \A k \in 1..(Len(response.forecast) - 1) :
              response.forecast[k + 1][KeyMonth] = RAdd(response.forecast[k][KeyMonth], RInt(1))

\* the k-th smallest of the distinct historical months
KthMonth(k) ==
    CHOOSE m \in MonthsFound(all_data) :
        Cardinality({x \in MonthsFound(all_data) : x < m}) = k - 1
\* the month the k-th entry of the timeline stands for
TimelineMonth(k) ==
    IF k <= HistoricalCount THEN KthMonth(k)
    ELSE LastHistoricalMonth + (k - HistoricalCount)

\* C1, amended: the returned list has (distinct historical months +
\* forecast_months) entries, built in this order: one for each distinct
\* historical month, ascending, the gaps of the history kept, then one for each
\* of the months max+1, max+2, ... without a gap.  Each entry's 'month' field is
\* set to its month when the entry is created, and still holds it at the end
\* when no category is named 'month'.
TimelineAscending ==
    /\ (pc = "historical" /\ result # <<>>) =>
          /\ Len(result) <= HistoricalCount
          /\ month = TimelineMonth(Len(result))
    /\ pc = "future" =>
          /\ Len(result) >= HistoricalCount
          /\ month = TimelineMonth(Len(result) + 1)
          /\ month = LastHistoricalMonth + (Len(result) - HistoricalCount) + 1
    /\ Forecasted =>
          /\ Len(response.forecast) = HistoricalCount + forecast_months
          /\ (\A j \in 1..Len(response.categories) : response.categories[j] # KeyMonth) =>
                \A k \in 1..Len(response.forecast) :
                    response.forecast[k][KeyMonth] = RInt(TimelineMonth(k))

\* a history of months 1, 2 and 4 was answered with the months 1, 2, 4, 5, 6
TimelineWitness ==
    /\ Forecasted
    /\ MonthsFound(all_data) = {1, 2, 4}
    /\ forecast_months = 2
    /\ Len(response.forecast) = 5
    /\ [k \in 1..5 |-> response.forecast[k][KeyMonth]] =
           <<RInt(1), RInt(2), RInt(4), RInt(5), RInt(6)>>

-----------------------------------------------------------------------------
(* C2 *)

\* C2: in every returned summary, 'savings' is the income minus the sum of the
\* category values the summary holds.
SavingsIsIncomeMinusCategories ==
    Forecasted =>
        \A k \in 1..Len(response.forecast) :
            response.forecast[k][KeySavings] =
                RSub(salary, CategoryValues(response.forecast[k], response.categories))

-----------------------------------------------------------------------------
(* C6 *)

\* C6: in every returned summary of a future month, the value of every
\* category is at least 0.
FutureValuesNonNegative ==
    Forecasted =>
        \A k \in (HistoricalCount + 1)..Len(response.forecast) :
            \A j \in 1..Len(response.categories) :
                response.categories[j] \in DOMAIN response.forecast[k] =>
                    NonNegative(response.forecast[k][response.categories[j]])

\* the clamp of line 169 itself: no predicted amount is negative
PredictedAmountNonNegative == NonNegative(predicted_amount)

-----------------------------------------------------------------------------
(* C7 *)

JustPredicted == pc = "future" /\ ci > 1
SinglePoint(c) == Cardinality(ObservedMonths(c)) = 1
PointAmount(c) == TotalOf({k \in 1..Len(all_data) : all_data[k].category = c})

\* C7, as stated: a category whose observations all fall in one month and sum
\* to a0 is predicted a0 for every future month.
SinglePointPredictsAmount ==
    (JustPredicted /\ SinglePoint(categories[ci - 1])) =>
        predicted_amount = PointAmount(categories[ci - 1])

\* C7, amended: a category whose observations all fall in one month and sum to
\* a0 is predicted max(0, a0) for every future month: that is the amount
\* generate_forecast computes, writes under the category's name and adds to the
\* month's expenses.
SinglePointPredictsClampedAmount ==
    (JustPredicted /\ SinglePoint(categories[ci - 1])) =>
        /\ predicted_amount = FloorAtZero(PointAmount(categories[ci - 1]))
        /\ month_data[categories[ci - 1]] = predicted_amount

\* a category with two observations in one month, summing to 6, predicted 6
\* for the second future month
SinglePointWitness ==
    /\ JustPredicted
    /\ SinglePoint(categories[ci - 1])
    /\ Cardinality({k \in 1..Len(all_data) : all_data[k].category = categories[ci - 1]}) = 2
    /\ month = LastHistoricalMonth + 2
    /\ PointAmount(categories[ci - 1]) = RInt(6)
    /\ predicted_amount = RInt(6)

-----------------------------------------------------------------------------
(* C8 *)

\* C8: the same request sent twice is answered twice with the same response.
RerunIdentical ==
    (pc = "done" /\ client.called) => response = client.response

\* while the process keeps its hash seed the two responses agree
RerunIdenticalInOneProcess ==
    (pc = "done" /\ client.called /\ client.hashseed = hashseed) =>
        response = client.response

-----------------------------------------------------------------------------
(* C9 *)

\* C9: the summary of historical month h has an entry for category c exactly
\* when an observation of (h, c) exists, and the entry is the sum of the
\* amounts of these observations.
HistoricalEntriesAreSums ==
    Forecasted =>
        \A k \in 1..HistoricalCount :
            \A j \in 1..Len(response.categories) :
                LET c == response.categories[j]
                    e == response.forecast[k]
                    obs == Observations(c, months[k])
                IN  /\ (c \in DOMAIN e) <=> (obs # {})
                    /\ (c \in DOMAIN e) => e[c] = TotalOf(obs)

-----------------------------------------------------------------------------
(* C10 *)

\* C10: every future summary holds, under each name of the category list,
\* that category's clamped prediction, and its 'month' and 'savings' fields
\* are the month and the income minus the predictions.
FutureEntriesHoldPredictions ==
    Forecasted =>
        \A k \in (HistoricalCount + 1)..Len(response.forecast) :
            LET e == response.forecast[k]
                m == LastHistoricalMonth + (k - HistoricalCount)
            IN  /\ \A j \in 1..Len(response.categories) :
                      /\ response.categories[j] \in DOMAIN e
                      /\ e[response.categories[j]] =
                             PredictedAmount(all_data, response.categories[j], m)
                /\ e[KeyMonth] = RInt(m)
                /\ e[KeySavings] = RSub(salary, Predictions(response.categories, m))

====
